---- MODULE Spec2Model ----
(***************************************************************************)
(* A model of the behaviour the tutorial notebooks exercise: the jit       *)
(* cache of the functions of 4-JIT.ipynb (tracing, static arguments,       *)
(* trace-time errors, host side effects), asynchronous dispatch with       *)
(* block_until_ready, and the functional array updates of the basics       *)
(* notebook.                                                               *)
(***************************************************************************)
EXTENDS Integers, Sequences, FiniteSets, TLC

\* ---------------------------------------------------------------- bounds

\* Calls of jit-wrapped functions in one run.
MaxCalls == 3

\* Device operations dispatched in one run of the asynchronous part.
MaxOps == 3

\* Functional updates applied in one run of the array part.
MaxUpd == 3

\* The length of the 1-D arrays updated (jax_arr has 4 elements).
ArrLen == 4

\* The largest dimension of the operands of an elementwise operation.
MaxDim == 3

\* The coordinates of the points a gradient is evaluated at: -MaxX..MaxX.
MaxX == 3

\* The number of random.split calls of a run.
MaxSplits == 3

\* The longest data array of the moving average.
MaxN == 4

\* The iterations of the gradient descent loop that are run.
MaxSteps == 3

\* range(100) of fast_function.
FastIters == 100

\* ------------------------------------------------------------ jit: data

None == "none"

\* The jit-wrapped functions of 4-JIT.ipynb.
Fns ==
    {"fast_function", "add_multiply", "bad_side_effect", "good_static_loop",
     "bad_dynamic_loop", "bad_python_if", "good_conditional", "debug_function"}

\* The calls the notebook makes (x, y: array arguments; n: the integer second
\* argument of the loop functions, 0 when the function has none), and a few
\* more of the same kind. Loop-function arrays are in hundredths.
Inputs ==
    {[f |-> "add_multiply", x |-> <<1, 2>>, y |-> <<3, 4>>, n |-> 0],
     [f |-> "add_multiply", x |-> <<5, 6>>, y |-> <<7, 8>>, n |-> 0],
     [f |-> "add_multiply", x |-> <<1, 2, 3>>, y |-> <<4, 5, 6>>, n |-> 0],
     [f |-> "bad_side_effect", x |-> <<1>>, y |-> <<>>, n |-> 0],
     [f |-> "bad_side_effect", x |-> <<2>>, y |-> <<>>, n |-> 0],
     [f |-> "bad_side_effect", x |-> <<1, 2>>, y |-> <<>>, n |-> 0],
     [f |-> "good_static_loop", x |-> <<100, 200, 300>>, y |-> <<>>, n |-> 5],
     [f |-> "good_static_loop", x |-> <<100, 200, 300>>, y |-> <<>>, n |-> 3],
     [f |-> "good_static_loop", x |-> <<100, 200>>, y |-> <<>>, n |-> 3],
     [f |-> "bad_dynamic_loop", x |-> <<100, 200, 300>>, y |-> <<>>, n |-> 5],
     [f |-> "bad_python_if", x |-> <<1, 2, 3>>, y |-> <<>>, n |-> 0],
     [f |-> "fast_function", x |-> <<1, 2, 3>>, y |-> <<>>, n |-> 0]}

\* The calls of the functions the notebook also runs, or could run, without
\* jit: debug_function on x = [1, 2], good_conditional on x_test = [1, 2, 3],
\* good_static_loop, and a few more of the same kind with elements on both
\* sides of the threshold.
EquivInputs ==
    {[f |-> "debug_function", x |-> <<1, 2>>, y |-> <<>>, n |-> 0],
     [f |-> "debug_function", x |-> <<3, 4>>, y |-> <<>>, n |-> 0],
     [f |-> "debug_function", x |-> <<1, 2, 3>>, y |-> <<>>, n |-> 0],
     [f |-> "good_conditional", x |-> <<1, 2, 3>>, y |-> <<>>, n |-> 0],
     [f |-> "good_conditional", x |-> <<4, 6, 7>>, y |-> <<>>, n |-> 0],
     [f |-> "good_conditional", x |-> <<9, 5, 6>>, y |-> <<>>, n |-> 0],
     [f |-> "good_conditional", x |-> <<6, 1>>, y |-> <<>>, n |-> 0],
     [f |-> "good_static_loop", x |-> <<100, 200, 300>>, y |-> <<>>, n |-> 3],
     [f |-> "good_static_loop", x |-> <<100, 200, 300>>, y |-> <<>>, n |-> 2],
     [f |-> "good_static_loop", x |-> <<300, 100, 200>>, y |-> <<>>, n |-> 3]}

\* The shape of a 1-D array argument.
Shape(x) == Len(x)

\* static_argnums of each wrapped function: @jit has none,
\* @partial(jit, static_argnums=(1,)) marks the second argument.
StaticArgnums(f) == IF f = "good_static_loop" THEN {1} ELSE {}

\* An argument is replaced by a tracer unless it is static.
IsTracer(f, p) == p \notin StaticArgnums(f)

\* The cache key of a call: the function, the shapes of its traced arguments
\* and the values of its static ones (0: no static argument).
CacheKeyNoShape(f, shape, n) ==
    <<f, 0, IF 1 \in StaticArgnums(f) THEN n ELSE 0>>

CacheKeyNoStatic(f, shape, n) == <<f, shape, 0>>

CacheKey(f, shape, n) ==
    <<f, shape, IF 1 \in StaticArgnums(f) THEN n ELSE 0>>

\* The signature of a call as the caller sees it: what was passed.
Sig(in) == <<in.f, Shape(in.x), in.n>>

Sigs == {Sig(in) : in \in Inputs \cup EquivInputs}

Shapes == {Shape(in.x) : in \in Inputs \cup EquivInputs}

\* --------------------------------------------------------- jit: tracing

\* The error Python raises when the body needs the concrete value of a tracer.
LoopBoundErrorNone(f) == None

LoopBoundError(f) ==
    IF IsTracer(f, 1) THEN "TracerIntegerConversionError" ELSE None

BranchError(f) == "TracerBoolConversionError"

\* A recorded operation with operands: the operands are numbers of earlier
\* operations of the same trace (for "const", the constant itself).
Eqn(op, args) == [op |-> op, args |-> args]

\* intermediate = x * 2; result = jnp.sin(intermediate)
DebugEqns ==
    <<Eqn("in", <<>>), Eqn("const", <<2>>), Eqn("mul", <<1, 2>>),
      Eqn("sin", <<3>>)>>

\* threshold=5.0
Threshold == 5

\* jnp.where(x > threshold, jnp.sin(x), jnp.cos(x)): both branches are
\* recorded, and an elementwise selection by the comparison's mask.
CondEqns ==
    <<Eqn("in", <<>>), Eqn("const", <<Threshold>>), Eqn("gt", <<1, 2>>),
      Eqn("sin", <<1>>), Eqn("cos", <<1>>), Eqn("select", <<3, 4, 5>>)>>

\* One run of the Python body on tracers: the error it raises (None: none), the
\* primitive operations it records, and its host side effects (print(x),
\* counter += 1), which happen as the body runs.
Trace(f, shape, n) ==
    CASE f = "add_multiply" ->
           [err |-> None, ops |-> <<"add", "mul">>, prints |-> 1, incs |-> 0]
      [] f = "bad_side_effect" ->
           [err |-> None, ops |-> <<"mul2">>, prints |-> 0, incs |-> 1]
      [] f \in {"good_static_loop", "bad_dynamic_loop"} ->
           IF LoopBoundError(f) # None
           THEN [err |-> LoopBoundError(f), ops |-> <<>>,
                 prints |-> 0, incs |-> 0]
           ELSE [err |-> None, ops |-> [i \in 1..n |-> "muladd"],
                 prints |-> 0, incs |-> 0]
      [] f = "bad_python_if" ->
           [err |-> BranchError(f), ops |-> <<"sum", "gt">>,
            prints |-> 0, incs |-> 0]
      [] f = "fast_function" ->
           [err |-> None, ops |-> [i \in 1..FastIters |-> "sincos"],
            prints |-> 0, incs |-> 0]
      [] f = "debug_function" ->
           [err |-> None, ops |-> DebugEqns, prints |-> 0, incs |-> 0]
      [] f = "good_conditional" ->
           [err |-> None, ops |-> CondEqns, prints |-> 1, incs |-> 0]

\* The increments of the global counter one call performs: counter += 1 is a
\* statement of the Python body, which runs only when the call traces.
CounterIncsEveryCall(f, shape, n, hit) == Trace(f, shape, n).incs

CounterIncs(f, shape, n, hit) == IF hit THEN 0 ELSE Trace(f, shape, n).incs

\* The compiled plan built from a successful trace.
BuildPlan(f, shape, n, t) ==
    [fn |-> f, shape |-> shape,
     static |-> IF 1 \in StaticArgnums(f) THEN n ELSE 0,
     ops |-> t.ops]

\* The plan table after a call: a plan is added under the key when the call
\* missed and its trace succeeded; nothing else is touched.
StorePlanOnFailure(c, key, plan, hit, ok) ==
    IF hit THEN c ELSE (key :> plan) @@ c

StorePlanKeepsOne(c, key, plan, hit, ok) ==
    IF hit \/ ~ok THEN c ELSE (key :> plan)

StorePlan(c, key, plan, hit, ok) ==
    IF hit \/ ~ok THEN c ELSE (key :> plan) @@ c

\* -------------------------------------------------------- jit: executing

RECURSIVE Pow10(_)
Pow10(k) == IF k = 0 THEN 1 ELSE 10 * Pow10(k - 1)

\* x * 1.1 + 0.01 on a value num / (100 * 10^k), exactly: the result is
\* (11 * num + 10^(k+1)) / (100 * 10^(k+1)).
MulAdd(v) ==
    [num |-> [i \in DOMAIN v.num |-> 11 * v.num[i] + Pow10(v.k + 1)],
     k |-> v.k + 1]

RECURSIVE RunOps(_, _)
RunOps(ops, v) ==
    IF ops = <<>> THEN v
    ELSE RunOps(Tail(ops), IF Head(ops) = "muladd" THEN MulAdd(v) ELSE v)

\* jnp.sin and jnp.cos of a number, left uninterpreted.
Sin(v) == [fn |-> "sin", of |-> v]

Cos(v) == [fn |-> "cos", of |-> v]

\* The value of a recorded operation on array x, from the values of the
\* operations before it; a constant operand is broadcast.
EqnValueSelectFirst(e, vals, x) ==
    LET a == vals[e.args[1]]
    IN CASE e.op = "in" -> x
         [] e.op = "const" -> e.args[1]
         [] e.op = "mul" -> [i \in DOMAIN a |-> a[i] * vals[e.args[2]]]
         [] e.op = "gt" -> [i \in DOMAIN a |-> a[i] > vals[e.args[2]]]
         [] e.op = "sin" -> [i \in DOMAIN a |-> Sin(a[i])]
         [] e.op = "cos" -> [i \in DOMAIN a |-> Cos(a[i])]
         [] e.op = "select" -> vals[e.args[2]]

EqnValue(e, vals, x) ==
    LET a == vals[e.args[1]]
    IN CASE e.op = "in" -> x
         [] e.op = "const" -> e.args[1]
         [] e.op = "mul" -> [i \in DOMAIN a |-> a[i] * vals[e.args[2]]]
         [] e.op = "gt" -> [i \in DOMAIN a |-> a[i] > vals[e.args[2]]]
         [] e.op = "sin" -> [i \in DOMAIN a |-> Sin(a[i])]
         [] e.op = "cos" -> [i \in DOMAIN a |-> Cos(a[i])]
         [] e.op = "select" ->
              [i \in DOMAIN a |->
                  IF a[i] THEN vals[e.args[2]][i] ELSE vals[e.args[3]][i]]

\* The values of operations 1..i of a plan run on x.
RECURSIVE RunEqns(_, _, _)
RunEqns(eqns, x, i) ==
    IF i = 0 THEN <<>>
    ELSE LET prev == RunEqns(eqns, x, i - 1)
         IN Append(prev, EqnValue(eqns[i], prev, x))

\* The functions called without jit: Python runs the body on the concrete
\* arrays, statement by statement.
RECURSIVE LoopBody(_, _)
LoopBody(v, n) == IF n = 0 THEN v ELSE LoopBody(MulAdd(v), n - 1)

Uncompiled(f, x, n) ==
    CASE f = "debug_function" ->
           LET intermediate == [i \in DOMAIN x |-> x[i] * 2]
           IN <<[i \in DOMAIN x |-> Sin(intermediate[i])]>>
      [] f = "good_conditional" ->
           <<[i \in DOMAIN x |->
                IF x[i] > Threshold THEN Sin(x[i]) ELSE Cos(x[i])]>>
      [] f = "good_static_loop" ->
           <<LoopBody([num |-> x, k |-> 0], n)>>

\* Running a plan on concrete arguments: only the recorded operations run.
Execute(plan, x, y) ==
    CASE plan.fn = "add_multiply" ->
           <<[i \in DOMAIN x |-> x[i] + y[i]], [i \in DOMAIN x |-> x[i] * y[i]]>>
      [] plan.fn = "bad_side_effect" ->
           <<[i \in DOMAIN x |-> x[i] * 2]>>
      [] plan.fn = "good_static_loop" ->
           <<RunOps(plan.ops, [num |-> x, k |-> 0])>>
      [] plan.fn \in {"debug_function", "good_conditional"} ->
           <<RunEqns(plan.ops, x, Len(plan.ops))[Len(plan.ops)]>>
      [] OTHER -> <<[op |-> plan.fn, ops |-> Len(plan.ops), x |-> x]>>

\* ---------------------------------------------------- functional updates

\* An Array: its shape and its elements in row-major order.
MkArray(shape, data) == [shape |-> shape, data |-> data]

RECURSIVE Product(_)
Product(shape) ==
    IF shape = <<>> THEN 1 ELSE Head(shape) * Product(Tail(shape))

\* The position (from 1) of the element at a 0-based index tuple.
RECURSIVE Offset(_, _)
Offset(shape, idx) ==
    IF shape = <<>> THEN 0
    ELSE Head(idx) * Product(Tail(shape)) + Offset(Tail(shape), Tail(idx))

Pos(shape, idx) == Offset(shape, idx) + 1

\* a.at[idx].set(v): the array object a after the call, and the new array.
AtSetInPlace(a, idx, v) ==
    LET upd == [a EXCEPT !.data[Pos(a.shape, idx)] = v]
    IN [orig |-> upd, out |-> upd]

AtSet(a, idx, v) ==
    [orig |-> a, out |-> [a EXCEPT !.data[Pos(a.shape, idx)] = v]]

\* a.at[lo:hi].set(vals) on a 1-D array, vals of the region's shape.
AtSliceSet(a, lo, hi, vals) ==
    [orig |-> a,
     out |-> [a EXCEPT !.data = [p \in DOMAIN a.data |->
                 IF lo + 1 <= p /\ p <= hi THEN vals[p - lo] ELSE a.data[p]]]]

\* The arrays updated: jax_arr = [1 2 3 4] and its like, and
\* arr_2d = arange(9).reshape(3, 3).
ArrInputs ==
    {MkArray(<<ArrLen>>, d) : d \in [1..ArrLen -> {1, 2}]}
    \cup {MkArray(<<ArrLen>>, [p \in 1..ArrLen |-> p])}
    \cup {MkArray(<<3, 3>>, [p \in 1..9 |-> p - 1])}

\* The replacement values of the notebook.
UpdVals == {99, 88, 77}

\* The 0-based index tuples of a shape.
Indices(shape) ==
    IF Len(shape) = 1 THEN {<<i>> : i \in 0..(shape[1] - 1)}
    ELSE {<<i, j>> : i \in 0..(shape[1] - 1), j \in 0..(shape[2] - 1)}

\* ----------------------------------------------------------- broadcasting

Max(a, b) == IF a >= b THEN a ELSE b

Min(a, b) == IF a <= b THEN a ELSE b

Front(s) == SubSeq(s, 1, Len(s) - 1)

Last(s) == s[Len(s)]

\* Two shapes can be combined when, from the trailing dimension on, every
\* pair of dimensions is equal or has a 1 (the notebook's operand pairs:
\* equal shapes, a scalar, (2,3) with (3,), (2,3) with (2,1)).
Compatible(A, B) ==
    \A i \in 1..Min(Len(A), Len(B)) :
        LET da == A[Len(A) - i + 1]
            db == B[Len(B) - i + 1]
        IN da = db \/ da = 1 \/ db = 1

\* The shape of the result, built from the trailing dimension on; what is
\* left of the longer shape is kept.
RECURSIVE BroadcastShapeMin(_, _)
BroadcastShapeMin(A, B) ==
    IF A = <<>> THEN B
    ELSE IF B = <<>> THEN A
    ELSE Append(BroadcastShapeMin(Front(A), Front(B)), Min(Last(A), Last(B)))

RECURSIVE BroadcastShape(_, _)
BroadcastShape(A, B) ==
    IF A = <<>> THEN B
    ELSE IF B = <<>> THEN A
    ELSE Append(BroadcastShape(Front(A), Front(B)), Max(Last(A), Last(B)))

\* The 0-based index tuple of the element at a 0-based row-major offset.
RECURSIVE Unravel(_, _)
Unravel(shape, off) ==
    IF shape = <<>> THEN <<>>
    ELSE <<off \div Product(Tail(shape))>>
         \o Unravel(Tail(shape), off % Product(Tail(shape)))

\* The index into an operand of shape s of the element that meets the result
\* element idx: the trailing entries of idx, 0 along a dimension of size 1.
OperandIndex(s, idx) ==
    [i \in 1..Len(s) |-> IF s[i] = 1 THEN 0 ELSE idx[Len(idx) - Len(s) + i]]

ApplyOp(op, u, v) ==
    CASE op = "add" -> u + v
      [] op = "sub" -> u - v
      [] op = "mul" -> u * v

\* a + b, a - b, a * b on Arrays.
Elementwise(op, a, b) ==
    LET sh == BroadcastShape(a.shape, b.shape)
    IN MkArray(sh,
         [p \in 1..Product(sh) |->
            LET idx == Unravel(sh, p - 1)
            IN ApplyOp(op,
                 a.data[Pos(a.shape, OperandIndex(a.shape, idx))],
                 b.data[Pos(b.shape, OperandIndex(b.shape, idx))])])

\* The operand shapes: scalars, vectors and matrices.
BcShapes ==
    {<<>>} \cup {<<d>> : d \in 1..MaxDim}
    \cup {<<d, e>> : d \in 1..MaxDim, e \in 1..MaxDim}

\* An operand of a shape: k, 2k, 3k, ... in row-major order
\* (arr = [[1 2 3] [4 5 6]], row = [10 20 30], col = [[100] [200]], 10).
Fill(shape, k) == MkArray(shape, [p \in 1..Product(shape) |-> k * p])

\* -------------------------------------------------------------- autodiff

RECURSIVE Pow(_, _)
Pow(x, n) == IF n = 0 THEN 1 ELSE x * Pow(x, n - 1)

\* The differentiated functions of 2-Grad.ipynb, as Python evaluates them:
\* f(x) = x**2, h(x, y) = x**2 + 3*x*y + y**2, f4(x) = x**4 - 2*x**3 + x**2.
EvalPy(fn, args) ==
    CASE fn = "f" -> Pow(args[1], 2)
      [] fn = "h" -> Pow(args[1], 2) + 3 * args[1] * args[2] + Pow(args[2], 2)
      [] fn = "f4" -> Pow(args[1], 4) - 2 * Pow(args[1], 3) + Pow(args[1], 2)

Node(op, a, b) == [op |-> op, a |-> a, b |-> b]

\* The trace of a function: one node per argument ("in", 0-based), then one
\* per primitive operation in the order Python evaluates the expression,
\* operands named by node number; the last node is the output.
TraceGraph(fn) ==
    CASE fn = "f" ->
           <<Node("in", 0, 0), Node("ipow", 1, 2)>>
      [] fn = "h" ->
           <<Node("in", 0, 0), Node("in", 1, 0),
             Node("ipow", 1, 2),
             Node("const", 3, 0), Node("mul", 4, 1), Node("mul", 5, 2),
             Node("add", 3, 6),
             Node("ipow", 2, 2),
             Node("add", 7, 8)>>
      [] fn = "f4" ->
           <<Node("in", 0, 0),
             Node("ipow", 1, 4),
             Node("const", 2, 0), Node("ipow", 1, 3), Node("mul", 3, 4),
             Node("sub", 2, 5),
             Node("ipow", 1, 2),
             Node("add", 6, 7)>>

\* The value of a node, from the values of the nodes before it.
NodeValueIpowAsMul(nd, vals, args) ==
    CASE nd.op = "in" -> args[nd.a + 1]
      [] nd.op = "const" -> nd.a
      [] nd.op = "add" -> vals[nd.a] + vals[nd.b]
      [] nd.op = "sub" -> vals[nd.a] - vals[nd.b]
      [] nd.op = "mul" -> vals[nd.a] * vals[nd.b]
      [] nd.op = "ipow" -> vals[nd.a] * nd.b

NodeValue(nd, vals, args) ==
    CASE nd.op = "in" -> args[nd.a + 1]
      [] nd.op = "const" -> nd.a
      [] nd.op = "add" -> vals[nd.a] + vals[nd.b]
      [] nd.op = "sub" -> vals[nd.a] - vals[nd.b]
      [] nd.op = "mul" -> vals[nd.a] * vals[nd.b]
      [] nd.op = "ipow" -> Pow(vals[nd.a], nd.b)

\* The forward pass: the values of nodes 1..i.
RECURSIVE Forward(_, _, _)
Forward(g, args, i) ==
    IF i = 0 THEN <<>>
    ELSE LET prev == Forward(g, args, i - 1)
         IN Append(prev, NodeValue(g[i], prev, args))

\* One step of reverse accumulation: the cotangent of node i is passed to
\* its operands by the chain rule.
Bump(ct, j, d) == [ct EXCEPT ![j] = @ + d]

PropagateMulSameSide(nd, i, vals, ct) ==
    CASE nd.op = "add" -> Bump(Bump(ct, nd.a, ct[i]), nd.b, ct[i])
      [] nd.op = "sub" -> Bump(Bump(ct, nd.a, ct[i]), nd.b, 0 - ct[i])
      [] nd.op = "mul" ->
           Bump(Bump(ct, nd.a, ct[i] * vals[nd.a]), nd.b, ct[i] * vals[nd.b])
      [] nd.op = "ipow" ->
           Bump(ct, nd.a, ct[i] * nd.b * Pow(vals[nd.a], nd.b - 1))
      [] OTHER -> ct

Propagate(nd, i, vals, ct) ==
    CASE nd.op = "add" -> Bump(Bump(ct, nd.a, ct[i]), nd.b, ct[i])
      [] nd.op = "sub" -> Bump(Bump(ct, nd.a, ct[i]), nd.b, 0 - ct[i])
      [] nd.op = "mul" ->
           Bump(Bump(ct, nd.a, ct[i] * vals[nd.b]), nd.b, ct[i] * vals[nd.a])
      [] nd.op = "ipow" ->
           Bump(ct, nd.a, ct[i] * nd.b * Pow(vals[nd.a], nd.b - 1))
      [] OTHER -> ct

\* The backward pass over nodes i, i-1, ..., 1.
RECURSIVE Backward(_, _, _, _)
Backward(g, vals, ct, i) ==
    IF i = 0 THEN ct
    ELSE Backward(g, vals, Propagate(g[i], i, vals, ct), i - 1)

\* The cotangents of all nodes, seeded with 1 at the output.
Cotangents(g, vals) ==
    Backward(g, vals, [j \in 1..Len(g) |-> IF j = Len(g) THEN 1 ELSE 0], Len(g))

\* The node of argument k.
InputNode(g, k) == CHOOSE j \in 1..Len(g) : g[j].op = "in" /\ g[j].a = k

\* The gradient: one derivative per entry of argnums (an integer argnums is
\* written as a tuple of one entry).
Select(g, ct, argnums) ==
    [m \in 1..Len(argnums) |-> ct[InputNode(g, argnums[m])]]

\* grad(fn, argnums)(*args): trace, forward pass, backward pass.
Grad(fn, argnums, args) ==
    LET g == TraceGraph(fn)
        vals == Forward(g, args, Len(g))
    IN Select(g, Cotangents(g, vals), argnums)

\* value_and_grad(fn, argnums)(*args): the output of the forward pass and
\* the gradient, from the same trace.
ValueAndGrad(fn, argnums, args) ==
    LET g == TraceGraph(fn)
        vals == Forward(g, args, Len(g))
    IN <<vals[Len(g)], Select(g, Cotangents(g, vals), argnums)>>

\* ------------------------------------------- autodiff: grad of a grad

\* The backward pass written as operations: acc.g is the graph so far (the
\* traced operations, then the operations of the backward pass), acc.ct[i]
\* the number of the operation holding the cotangent of operation i (0: none
\* has reached it yet).
Push(acc, nd) == [acc EXCEPT !.g = Append(@, nd)]

Top(acc) == Len(acc.g)

\* The cotangent held by operation j is added to that of operation x.
Contribute(acc, x, j) ==
    IF acc.ct[x] = 0 THEN [acc EXCEPT !.ct[x] = j]
    ELSE LET a1 == Push(acc, Node("add", acc.ct[x], j))
         IN [a1 EXCEPT !.ct[x] = Top(a1)]

\* The chain rule at operation i, recorded as operations.
BackNode(acc, i) ==
    LET nd == acc.g[i]
        c == acc.ct[i]
    IN IF c = 0 THEN acc
       ELSE CASE nd.op = "add" ->
                   Contribute(Contribute(acc, nd.a, c), nd.b, c)
              [] nd.op = "sub" ->
                   LET a1 == Contribute(acc, nd.a, c)
                       a2 == Push(a1, Node("const", -1, 0))
                       a3 == Push(a2, Node("mul", Top(a2), c))
                   IN Contribute(a3, nd.b, Top(a3))
              [] nd.op = "mul" ->
                   LET a1 == Push(acc, Node("mul", c, nd.b))
                       a2 == Contribute(a1, nd.a, Top(a1))
                       a3 == Push(a2, Node("mul", c, nd.a))
                   IN Contribute(a3, nd.b, Top(a3))
              [] nd.op = "ipow" ->
                   IF nd.b = 0 THEN acc
                   ELSE LET a1 == Push(acc, Node("const", nd.b, 0))
                            a2 == Push(a1, Node("ipow", nd.a, nd.b - 1))
                            a3 == Push(a2, Node("mul", Top(a1), Top(a2)))
                            a4 == Push(a3, Node("mul", c, Top(a3)))
                        IN Contribute(a4, nd.a, Top(a4))
              [] OTHER -> acc

RECURSIVE BackFrom(_, _)
BackFrom(acc, i) == IF i = 0 THEN acc ELSE BackFrom(BackNode(acc, i), i - 1)

\* The graph of the derivative of g with respect to argument k: the
\* operations of g, the backward pass seeded with 1 at the output of g, and
\* as output the cotangent that reached argument k (0 if none did).
GradGraph(g, k) ==
    LET n == Len(g)
        seed == Push([g |-> g, ct |-> [i \in 1..n |-> 0]], Node("const", 1, 0))
        back == BackFrom([seed EXCEPT !.ct[n] = n + 1], n)
        zero == Push(back, Node("const", 0, 0))
        c == back.ct[InputNode(g, k)]
    IN IF c = 0 THEN zero.g
       ELSE Push(zero, Node("add", c, Top(zero))).g

\* The functions passed to grad: a Python function of the notebook, or the
\* result of grad.
PyFn(name) == [kind |-> "py", name |-> name, k |-> 0]

GradFn(c, k) == [kind |-> "grad", of |-> c, k |-> k]

\* Tracing a function runs it on tracers; running the result of grad on a
\* tracer traces the function under it and differentiates that trace.
RECURSIVE TraceFnReusingInner(_)
TraceFnReusingInner(c) ==
    IF c.kind = "py" THEN TraceGraph(c.name)
    ELSE TraceFnReusingInner(c.of)

RECURSIVE TraceFn(_)
TraceFn(c) ==
    IF c.kind = "py" THEN TraceGraph(c.name)
    ELSE GradGraph(TraceFn(c.of), c.k)

\* The bodies run on tracers by one call of grad(c), outermost first.
RECURSIVE Bodies(_)
Bodies(c) ==
    IF c.kind = "py" THEN <<c.name>>
    ELSE <<"f_prime">> \o Bodies(c.of)

\* grad(c, argnums=k)(*args), computed on the trace of c.
GradAt(c, k, args) ==
    LET g == GradGraph(TraceFn(c), k)
    IN Forward(g, args, Len(g))[Len(g)]

\* The functions differentiated twice, the two argnums and the points.
HigherCases ==
    {[fn |-> fn, k1 |-> 0, k2 |-> 0, args |-> <<x>>] :
        fn \in {"f", "f4"}, x \in -MaxX..MaxX}
    \cup {[fn |-> "h", k1 |-> k1, k2 |-> k2, args |-> <<x, y>>] :
             k1 \in {0, 1}, k2 \in {0, 1}, x \in -MaxX..MaxX, y \in -MaxX..MaxX}

\* The transformed functions of the notebook and their points.
GradCases ==
    {[fn |-> "f", argnums |-> <<0>>, args |-> <<x>>] : x \in -MaxX..MaxX}
    \cup {[fn |-> "f4", argnums |-> <<0>>, args |-> <<x>>] : x \in -MaxX..MaxX}
    \cup {[fn |-> "h", argnums |-> a, args |-> <<x, y>>] :
             a \in {<<0>>, <<1>>, <<0, 1>>}, x \in -MaxX..MaxX, y \in -MaxX..MaxX}

\* ------------------------------------------------------------------ PRNG

\* Keys are written by their derivation: random.key(seed) is <<seed>>, and
\* the two keys random.split derives from k are k extended by 0 and by 1.
NoKey == <<>>

Seeds == {0, 1, 42}

MakeKey(seed) == <<seed>>

Split(k) == <<Append(k, 0), Append(k, 1)>>

\* The samplers the cell calls.
Samplers == {"uniform", "normal", "randint"}

\* key, subkey = random.split(key): the names bound after the statement.
RebindKeepsKey(k, pair) == [key |-> k, subkey |-> pair[2]]

Rebind(k, pair) == [key |-> pair[1], subkey |-> pair[2]]

\* -------------------------------------------------------- moving average

RECURSIVE SumSeq(_)
SumSeq(sq) == IF sq = <<>> THEN 0 ELSE Head(sq) + SumSeq(Tail(sq))

\* jnp.mean of a 1-D array, as the exact fraction sum / length.
Mean(sq) == [num |-> SumSeq(sq), den |-> Len(sq)]

\* jnp.zeros(m)
Zeros(m) == MkArray(<<m>>, [p \in 1..m |-> [num |-> 0, den |-> 1]])

\* data[lo:hi] of Python: the bounds are clipped to the array.
PySlice(data, lo, hi) == SubSeq(data, Min(lo, Len(data)) + 1, Min(hi, Len(data)))

\* jax.lax.dynamic_slice(data, (i,), (w,)): the start is clamped so that the
\* slice lies inside the array.
DynamicSlice(data, i, w) ==
    LET start == Max(0, Min(i, Len(data) - w))
    IN SubSeq(data, start + 1, start + w)

\* The body of moving_avg_python_loop from iteration i on: the loop is
\* unrolled while tracing, one .at[i].set per iteration.
RECURSIVE LoopFrom(_, _, _, _)
LoopFrom(result, data, w, i) ==
    IF i >= result.shape[1] THEN result
    ELSE LoopFrom(AtSet(result, <<i>>, Mean(PySlice(data, i, i + w))).out,
                  data, w, i + 1)

moving_avg_python_loop(data, w) ==
    LoopFrom(Zeros(Len(data) - w + 1), data, w, 0).data

\* scan_fn(i, _): the new carry and the output of the step.
scan_fn_same_carry(data, w, i) == <<i, Mean(DynamicSlice(data, i, w))>>

scan_fn(data, w, i) == <<i + 1, Mean(DynamicSlice(data, i, w))>>

\* jax.lax.scan(scan_fn, carry, xs=None, length): the stacked outputs.
RECURSIVE Scan(_, _, _, _)
Scan(data, w, carry, length) ==
    IF length = 0 THEN <<>>
    ELSE LET step == scan_fn(data, w, carry)
         IN <<step[2]>> \o Scan(data, w, step[1], length - 1)

moving_avg_scan(data, w) == Scan(data, w, 0, Len(data) - w + 1)

\* The test data of the notebook with its window, and every short array
\* with every window that fits.
MovAvgInputs ==
    {[data |-> [p \in 1..10 |-> p], w |-> 3]}
    \cup UNION {{[data |-> d, w |-> w] : d \in [1..n -> {1, 2, 4}], w \in 1..n} :
                  n \in 1..MaxN}

\* ------------------------------------------------------ gradient descent

\* Exact fractions in lowest terms, the denominator positive.
Abs(a) == IF a < 0 THEN 0 - a ELSE a

RECURSIVE GCD(_, _)
GCD(a, b) == IF b = 0 THEN a ELSE GCD(b, a % b)

Rat(n, d) ==
    LET g == GCD(Abs(n), d)
    IN [n |-> n \div g, d |-> d \div g]

FromInt(k) == [n |-> k, d |-> 1]

RAdd(a, b) ==
    LET l == (a.d \div GCD(a.d, b.d)) * b.d
    IN Rat(a.n * (l \div a.d) + b.n * (l \div b.d), l)

RNeg(a) == [n |-> 0 - a.n, d |-> a.d]

RSub(a, b) == RAdd(a, RNeg(b))

RMul(a, b) ==
    LET p == Rat(a.n, b.d)
        q == Rat(b.n, a.d)
    IN [n |-> p.n * q.n, d |-> p.d * q.d]

RECURSIVE RSum(_)
RSum(sq) == IF sq = <<>> THEN FromInt(0) ELSE RAdd(Head(sq), RSum(Tail(sq)))

RMean(sq) == RMul(RSum(sq), Rat(1, Len(sq)))

\* predictions - y_data for params = (w, b)
Residuals(params, x_data, y_data) ==
    [i \in DOMAIN x_data |->
        RSub(RAdd(RMul(params[1], FromInt(x_data[i])), params[2]),
             FromInt(y_data[i]))]

\* mse_loss(params, x_data, y_data)
mse_loss(params, x_data, y_data) ==
    LET r == Residuals(params, x_data, y_data)
    IN RMean([i \in DOMAIN r |-> RMul(r[i], r[i])])

\* loss_and_grad = value_and_grad(mse_loss): the loss, and its gradient with
\* respect to params by the backward pass through mean, **2, the subtraction
\* and w * x_data + b.
loss_and_grad(params, x_data, y_data) ==
    LET r == Residuals(params, x_data, y_data)
        dsq == Rat(1, Len(r))
        dr == [i \in DOMAIN r |-> RMul(RMul(FromInt(2), r[i]), dsq)]
        dw == RSum([i \in DOMAIN r |-> RMul(dr[i], FromInt(x_data[i]))])
        db == RSum(dr)
    IN <<mse_loss(params, x_data, y_data), <<dw, db>>>>

\* gradient_descent_step: its return value, and its arguments as they are
\* after the call.
gradient_descent_step_loss_after(params, x_data, y_data, learning_rate) ==
    LET lg == loss_and_grad(params, x_data, y_data)
        grads == lg[2]
        new_w == RSub(params[1], RMul(learning_rate, grads[1]))
        new_b == RSub(params[2], RMul(learning_rate, grads[2]))
    IN [ret |-> <<<<new_w, new_b>>, mse_loss(<<new_w, new_b>>, x_data, y_data)>>,
        params |-> params, x_data |-> x_data, y_data |-> y_data]

gradient_descent_step(params, x_data, y_data, learning_rate) ==
    LET lg == loss_and_grad(params, x_data, y_data)
        loss == lg[1]
        grads == lg[2]
        new_w == RSub(params[1], RMul(learning_rate, grads[1]))
        new_b == RSub(params[2], RMul(learning_rate, grads[2]))
    IN [ret |-> <<<<new_w, new_b>>, loss>>,
        params |-> params, x_data |-> x_data, y_data |-> y_data]

\* The notebook's data, starting params and learning rate, and others of
\* the same kind.
DescentInputs ==
    {[x_data |-> d[1], y_data |-> d[2], params |-> <<w, b>>, lr |-> lr] :
        d \in {<<<<1, 2, 3, 4>>, <<2, 4, 6, 8>>>>, <<<<1, 2>>, <<3, 4>>>>},
        w \in {FromInt(0), FromInt(1), Rat(3, 2), FromInt(2)},
        b \in {FromInt(0), Rat(1, 2), FromInt(1)},
        lr \in {Rat(1, 10), Rat(1, 4)}}

\* -------------------------------------------------------- error surfacing

\* An error detected while a call traces is raised by that call (the
\* try/except around the call catches it); nothing is attached to a result.
SurfaceDeferred(err) == [raised |-> None, carried |-> err]

Surface(err) == [raised |-> err, carried |-> None]

\* ------------------------------------------------------- async dispatch

\* A dispatched device operation is pending when its handle is returned.
DispatchStatus == "pending"

\* -------------------------------------------------------------- state

VARIABLES
    cache,      \* the plan table: cache key -> plan
    counter,    \* the global counter of bad_side_effect
    printed,    \* shape -> number of "Traced<float32[shape]>" lines printed
    ncall,      \* signature -> calls made with it
    ntrace,     \* signature -> traces of the body run for it
    last,       \* the outcome of the latest jitted call
    ncalls,     \* host operations so far
    ops,        \* handle -> [status, err] of the device operation behind it
    host,       \* "run" or "wait" (blocked in a synchronization or a read)
    waitOn,     \* the handle the host waits on and the kind of wait
    lastSync,   \* the latest wait that returned: [h, kind, status at return]
    arr,        \* the array being updated (jax_arr, arr_2d)
    arr0,       \* the array as constructed
    new_arr,    \* the array the latest update returned
    lastUpd,    \* the latest update: [kind, idx, lo, hi, vals]
    nupd,       \* updates applied
    bcA,        \* the left operand of the latest elementwise operation
    bcB,        \* its right operand
    bcOp,       \* its operator
    bcOut,      \* its result
    gCase,      \* the function, argnums and point of the autodiff cell
    gValue,     \* value_separate = fn(*args)
    gGrad,      \* grad_separate = grad(fn, argnums)(*args)
    gBoth,      \* value_and_grad(fn, argnums)(*args)
    prngPc,     \* the next statement of the random cell
    prngKey,    \* the key bound to the name key
    prngSubkey, \* the key bound to the name subkey
    prngLog,    \* the keys passed to split and to the samplers, in order
    maIn,       \* data and window_size of the moving average cell
    maLoop,     \* moving_avg_python_loop(data, window_size)
    maScan,     \* moving_avg_scan(data, window_size)
    hoCase,     \* the function, argnums and point of the higher-order cell
    hoFirst,    \* value, first_deriv = f_val_grad(x)
    hoSecond,   \* second_deriv = f_double_prime(x)
    hoTraces,   \* the bodies run on tracers so far, in order
    gdIn,       \* x_data, y_data, the starting params and the learning rate
    gdData,     \* the arrays x_data and y_data as they are now
    gdParams,   \* the tuple bound to the name params
    gdArg,      \* the tuple passed as params to the last step, after the call
    gdLog       \* the lines printed: params and loss of each step

jitVars == <<cache, counter, printed, ncall, ntrace, last, ncalls>>
asyncVars == <<ops, host, waitOn, lastSync>>
arrVars == <<arr, arr0, new_arr, lastUpd, nupd>>
bcVars == <<bcA, bcB, bcOp, bcOut>>
gradVars == <<gCase, gValue, gGrad, gBoth>>
prngVars == <<prngPc, prngKey, prngSubkey, prngLog>>
mavgVars == <<maIn, maLoop, maScan>>
hoVars == <<hoCase, hoFirst, hoSecond, hoTraces>>
gdVars == <<gdIn, gdData, gdParams, gdArg, gdLog>>
lateVars == <<mavgVars, hoVars, gdVars>>
libVars == <<bcVars, gradVars, prngVars, lateVars>>
vars == <<jitVars, asyncVars, arrVars, libVars>>

NoInput == [f |-> None, x |-> <<>>, y |-> <<>>, n |-> 0]

NoCall ==
    [f |-> None, args |-> NoInput, sig |-> <<None, 0, 0>>, hit |-> FALSE,
     traced |-> FALSE, detected |-> None, raised |-> None, plan |-> None,
     result |-> None, handle |-> 0]

InitJit ==
    /\ cache = <<>>
    /\ counter = 0
    /\ printed = [s \in Shapes |-> 0]
    /\ ncall = [s \in Sigs |-> 0]
    /\ ntrace = [s \in Sigs |-> 0]
    /\ last = NoCall
    /\ ncalls = 0

\* The host is not waiting.
NoWait == <<0, None>>

NoSync == [h |-> 0, kind |-> None, status |-> None, err |-> None]

InitAsync ==
    /\ ops = <<>>
    /\ host = "run"
    /\ waitOn = NoWait
    /\ lastSync = NoSync

NoArray == MkArray(<<0>>, <<>>)

NoUpd == [kind |-> None, idx |-> <<>>, lo |-> 0, hi |-> 0, vals |-> <<>>]

InitArrIdle ==
    /\ arr = NoArray
    /\ arr0 = NoArray
    /\ new_arr = NoArray
    /\ lastUpd = NoUpd
    /\ nupd = 0

InitBcIdle ==
    /\ bcA = NoArray
    /\ bcB = NoArray
    /\ bcOp = None
    /\ bcOut = NoArray

NoCase == [fn |-> None, argnums |-> <<>>, args |-> <<>>]

\* A result not computed yet, and a computed one.
NoOut(empty) == [done |-> FALSE, out |-> empty]
Out(v) == [done |-> TRUE, out |-> v]

NoResults ==
    /\ gValue = NoOut(0)
    /\ gGrad = NoOut(<<>>)
    /\ gBoth = NoOut(<<0, <<>>>>)

InitGradIdle ==
    /\ gCase = NoCase
    /\ NoResults

InitPrng ==
    /\ prngPc = "key"
    /\ prngKey = NoKey
    /\ prngSubkey = NoKey
    /\ prngLog = <<>>

InitMovAvgIdle ==
    /\ maIn = [data |-> <<>>, w |-> 0]
    /\ maLoop = NoOut(<<>>)
    /\ maScan = NoOut(<<>>)

NoHigher ==
    /\ hoFirst = NoOut(<<0, 0>>)
    /\ hoSecond = NoOut(0)
    /\ hoTraces = <<>>

InitHigherIdle ==
    /\ hoCase = [fn |-> None, k1 |-> 0, k2 |-> 0, args |-> <<>>]
    /\ NoHigher

NoParams == <<FromInt(0), FromInt(0)>>

InitDescentIdle ==
    /\ gdIn = [x_data |-> <<>>, y_data |-> <<>>, params |-> NoParams,
               lr |-> FromInt(0)]
    /\ gdData = <<<<>>, <<>>>>
    /\ gdParams = NoParams
    /\ gdArg = NoParams
    /\ gdLog = <<>>

InitLateIdle == InitMovAvgIdle /\ InitHigherIdle /\ InitDescentIdle

InitLibIdle == InitBcIdle /\ InitGradIdle /\ InitPrng /\ InitLateIdle

\* The array part starts from any of the arrays, the rest idle.
InitArray ==
    /\ InitJit
    /\ InitAsync
    /\ InitLibIdle
    /\ arr \in ArrInputs
    /\ arr0 = arr
    /\ new_arr = NoArray
    /\ lastUpd = NoUpd
    /\ nupd = 0

Init == InitJit /\ InitAsync /\ InitArrIdle /\ InitLibIdle

\* ------------------------------------------------------------ actions

\* A new handle for a dispatched device operation.
NewHandle == Len(ops) + 1

\* A call of a jit-wrapped function: compute the key; on a hit run the stored
\* plan; on a miss trace the body (its host side effects happen now), and
\* unless the trace raised, store the plan and run it. The run is dispatched
\* to the device and the call returns its handle.
Call(in) ==
    /\ host = "run"
    /\ ncalls < MaxCalls
    /\ LET key == CacheKey(in.f, Shape(in.x), in.n)
           hit == key \in DOMAIN cache
           t == Trace(in.f, Shape(in.x), in.n)
           s == IF hit THEN Surface(None) ELSE Surface(t.err)
           ok == hit \/ t.err = None
           plan == IF hit THEN cache[key]
                   ELSE BuildPlan(in.f, Shape(in.x), in.n, t)
           h == NewHandle
       IN /\ ncalls' = ncalls + 1
          /\ ncall' = [ncall EXCEPT ![Sig(in)] = @ + 1]
          /\ ntrace' = IF hit THEN ntrace
                       ELSE [ntrace EXCEPT ![Sig(in)] = @ + 1]
          /\ counter' = counter + CounterIncs(in.f, Shape(in.x), in.n, hit)
          /\ printed' = IF hit THEN printed
                        ELSE [printed EXCEPT ![Shape(in.x)] = @ + t.prints]
          /\ cache' = StorePlan(cache, key, plan, hit, ok)
          /\ IF s.raised # None
             THEN /\ ops' = ops
                  /\ last' = [f |-> in.f, args |-> in, sig |-> Sig(in),
                              hit |-> FALSE,
                              traced |-> TRUE, detected |-> t.err,
                              raised |-> s.raised, plan |-> None,
                              result |-> None, handle |-> 0]
             ELSE /\ ops' = Append(ops, [status |-> DispatchStatus,
                                         err |-> s.carried])
                  /\ last' = [f |-> in.f, args |-> in, sig |-> Sig(in),
                              hit |-> hit,
                              traced |-> ~hit,
                              detected |-> IF hit THEN None ELSE t.err,
                              raised |-> None,
                              plan |-> IF ok THEN plan ELSE None,
                              result |-> IF ok THEN Execute(plan, in.x, in.y)
                                         ELSE None,
                              handle |-> h]
    /\ UNCHANGED <<host, waitOn, lastSync, arrVars, libVars>>

\* large_array @ large_array: an eager operation, dispatched the same way.
Matmul ==
    /\ host = "run"
    /\ Len(ops) < MaxOps
    /\ ops' = Append(ops, [status |-> DispatchStatus, err |-> None])
    /\ UNCHANGED jitVars
    /\ UNCHANGED <<host, waitOn, lastSync, arrVars, libVars>>

\* The device finishes a pending operation.
DeviceCompleteFirstOnly(h) ==
    /\ h = 1
    /\ h \in DOMAIN ops
    /\ ops[h].status = "pending"
    /\ ops' = [ops EXCEPT ![h].status = "done"]
    /\ UNCHANGED <<jitVars, host, waitOn, lastSync, arrVars, libVars>>

DeviceComplete(h) ==
    /\ h \in DOMAIN ops
    /\ ops[h].status = "pending"
    /\ ops' = [ops EXCEPT ![h].status = "done"]
    /\ UNCHANGED <<jitVars, host, waitOn, lastSync, arrVars, libVars>>

\* result.block_until_ready(), or a read of the value (print(result)): the
\* host thread blocks on the handle.
StartWait(h, kind) ==
    /\ host = "run"
    /\ h \in DOMAIN ops
    /\ host' = "wait"
    /\ waitOn' = <<h, kind>>
    /\ UNCHANGED <<jitVars, ops, lastSync, arrVars, libVars>>

\* The wait is over once the device operation behind the handle is complete.
ReadyAlways(h) == TRUE

Ready(h) == ops[h].status = "done"

WaitReturn ==
    /\ host = "wait"
    /\ Ready(waitOn[1])
    /\ host' = "run"
    /\ waitOn' = NoWait
    /\ lastSync' = [h |-> waitOn[1], kind |-> waitOn[2],
                    status |-> ops[waitOn[1]].status,
                    err |-> ops[waitOn[1]].err]
    /\ UNCHANGED <<jitVars, ops, arrVars, libVars>>

\* The jit cache under any sequence of calls, the device completing the
\* dispatched operations meanwhile.
Next ==
    \/ \E in \in Inputs : Call(in)
    \/ \E h \in 1..MaxCalls : DeviceComplete(h)

Spec == Init /\ [][Next]_vars

\* The same, for the functions that also have an uncompiled run.
NextEquiv ==
    \/ \E in \in EquivInputs : Call(in)
    \/ \E h \in 1..MaxCalls : DeviceComplete(h)

SpecEquiv == Init /\ [][NextEquiv]_vars

\* Asynchronous dispatch: eager and jitted operations, the device, and the
\* host waiting on handles.
AsyncInputs == {in \in Inputs : in.f = "fast_function"}

NextAsync ==
    \/ \E in \in AsyncInputs : Len(ops) < MaxOps /\ Call(in)
    \/ Matmul
    \/ \E h \in 1..MaxOps : DeviceComplete(h)
    \/ \E h \in 1..MaxOps, kind \in {"block_until_ready", "read"} :
           StartWait(h, kind)
    \/ WaitReturn

SpecAsync == Init /\ [][NextAsync]_vars

\* The same with a fair device and a host thread that resumes when it can:
\* the device does not leave a pending operation undone for ever, and a wait
\* that can return does.
SpecAsyncFair ==
    /\ SpecAsync
    /\ \A h \in 1..MaxOps : WF_vars(DeviceComplete(h))
    /\ WF_vars(WaitReturn)

\* new_arr = jax_arr.at[i].set(v), updated_2d = arr_2d.at[i, j].set(v).
UpdateIndex(idx, v) ==
    /\ nupd < MaxUpd
    /\ idx \in Indices(arr.shape)
    /\ LET r == AtSet(arr, idx, v)
       IN /\ arr' = r.orig
          /\ new_arr' = r.out
    /\ lastUpd' = [kind |-> "index", idx |-> idx, lo |-> 0, hi |-> 0,
                    vals |-> <<v>>]
    /\ nupd' = nupd + 1
    /\ UNCHANGED <<jitVars, asyncVars, arr0, libVars>>

\* updated_arr = jax_arr.at[lo:hi].set(vals), vals of shape (hi - lo,).
UpdateSlice(lo, hi, vals) ==
    /\ nupd < MaxUpd
    /\ Len(arr.shape) = 1
    /\ 0 <= lo /\ lo < hi /\ hi <= arr.shape[1]
    /\ Len(vals) = hi - lo
    /\ LET r == AtSliceSet(arr, lo, hi, vals)
       IN /\ arr' = r.orig
          /\ new_arr' = r.out
    /\ lastUpd' = [kind |-> "slice", idx |-> <<>>, lo |-> lo, hi |-> hi,
                    vals |-> vals]
    /\ nupd' = nupd + 1
    /\ UNCHANGED <<jitVars, asyncVars, arr0, libVars>>

\* Replacement values of a slice: every region and every matching vals.
SliceVals(n) == [1..n -> {88, 77}]

NextArray ==
    \/ \E idx \in Indices(<<ArrLen>>) \cup Indices(<<3, 3>>), v \in UpdVals :
           UpdateIndex(idx, v)
    \/ \E lo \in 0..ArrLen, hi \in 0..ArrLen :
           \E vals \in SliceVals(IF hi > lo THEN hi - lo ELSE 0) :
               UpdateSlice(lo, hi, vals)

SpecArray == InitArray /\ [][NextArray]_vars

\* The elementwise part starts from any two operands whose shapes combine.
InitBcast ==
    /\ InitJit
    /\ InitAsync
    /\ InitArrIdle
    /\ \E sa \in BcShapes, sb \in BcShapes, k \in {10, 100} :
          /\ Compatible(sa, sb)
          /\ bcA = Fill(sa, 1)
          /\ bcB = Fill(sb, k)
    /\ bcOp = None
    /\ bcOut = NoArray
    /\ InitGradIdle
    /\ InitPrng
    /\ InitLateIdle

\* print(arr + scalar), print(arr + row), print(arr + col), a - b, a * b:
\* one elementwise operation on the two operands.
BinaryOp(op) ==
    /\ bcOp = None
    /\ bcOp' = op
    /\ bcOut' = Elementwise(op, bcA, bcB)
    /\ UNCHANGED <<jitVars, asyncVars, arrVars, lateVars, bcA, bcB, gradVars, prngVars>>

NextBcast == \E op \in {"add", "sub", "mul"} : BinaryOp(op)

SpecBcast == InitBcast /\ [][NextBcast]_vars

\* The autodiff part starts from any function, argnums and point.
InitGrad ==
    /\ InitJit
    /\ InitAsync
    /\ InitArrIdle
    /\ InitBcIdle
    /\ gCase \in GradCases
    /\ NoResults
    /\ InitPrng
    /\ InitLateIdle

\* value_separate = h(x, y)
CallPlain ==
    /\ ~gValue.done
    /\ gValue' = Out(EvalPy(gCase.fn, gCase.args))
    /\ UNCHANGED <<jitVars, asyncVars, arrVars, lateVars, bcVars, prngVars,
                   gCase, gGrad, gBoth>>

\* grad_separate = grad_h(x, y)
CallGrad ==
    /\ ~gGrad.done
    /\ gGrad' = Out(Grad(gCase.fn, gCase.argnums, gCase.args))
    /\ UNCHANGED <<jitVars, asyncVars, arrVars, lateVars, bcVars, prngVars,
                   gCase, gValue, gBoth>>

\* value_together, grad_together = value_and_grad_h(x, y)
CallValueAndGrad ==
    /\ ~gBoth.done
    /\ gBoth' = Out(ValueAndGrad(gCase.fn, gCase.argnums, gCase.args))
    /\ UNCHANGED <<jitVars, asyncVars, arrVars, lateVars, bcVars, prngVars,
                   gCase, gValue, gGrad>>

NextGrad ==
    \/ CallPlain
    \/ CallGrad
    \/ CallValueAndGrad

SpecGrad == InitGrad /\ [][NextGrad]_vars

\* The random cell starts before its first statement.
InitRandom ==
    /\ InitJit
    /\ InitAsync
    /\ InitArrIdle
    /\ InitBcIdle
    /\ InitGradIdle
    /\ InitPrng
    /\ InitLateIdle

Used(op, k) == [op |-> op, key |-> k]

\* key = random.key(42)
NewKey(seed) ==
    /\ prngPc = "key"
    /\ prngKey' = MakeKey(seed)
    /\ prngPc' = "uniform"
    /\ UNCHANGED <<jitVars, asyncVars, arrVars, lateVars, bcVars, gradVars,
                   prngSubkey, prngLog>>

\* uniform = random.uniform(key, shape=(2, 3))
SampleKey ==
    /\ prngPc = "uniform"
    /\ prngLog' = Append(prngLog, Used("uniform", prngKey))
    /\ prngPc' = "split"
    /\ UNCHANGED <<jitVars, asyncVars, arrVars, lateVars, bcVars, gradVars,
                   prngKey, prngSubkey>>

NSplits == Cardinality({i \in DOMAIN prngLog : prngLog[i].op = "split"})

\* key, subkey = random.split(key)
SplitKey ==
    /\ prngPc = "split"
    /\ NSplits < MaxSplits
    /\ LET bound == Rebind(prngKey, Split(prngKey))
       IN /\ prngKey' = bound.key
          /\ prngSubkey' = bound.subkey
    /\ prngLog' = Append(prngLog, Used("split", prngKey))
    /\ prngPc' = "sample"
    /\ UNCHANGED <<jitVars, asyncVars, arrVars, lateVars, bcVars, gradVars>>

\* normal = random.normal(subkey, shape=(2, 3)),
\* integers = random.randint(subkey, shape=(2, 3), minval=0, maxval=10)
SampleSubkey(dist) ==
    /\ prngPc = "sample"
    /\ prngLog' = Append(prngLog, Used(dist, prngSubkey))
    /\ prngPc' = "split"
    /\ UNCHANGED <<jitVars, asyncVars, arrVars, lateVars, bcVars, gradVars,
                   prngKey, prngSubkey>>

NextRandom ==
    \/ \E seed \in Seeds : NewKey(seed)
    \/ SampleKey
    \/ SplitKey
    \/ \E dist \in Samplers : SampleSubkey(dist)

SpecRandom == InitRandom /\ [][NextRandom]_vars

\* The moving average cell starts from any data and window.
InitMovAvg ==
    /\ InitJit
    /\ InitAsync
    /\ InitArrIdle
    /\ InitBcIdle
    /\ InitGradIdle
    /\ InitPrng
    /\ maIn \in MovAvgInputs
    /\ maLoop = NoOut(<<>>)
    /\ maScan = NoOut(<<>>)
    /\ InitHigherIdle
    /\ InitDescentIdle

\* print("Python loop result:", moving_avg_python_loop(data, window_size))
RunLoop ==
    /\ ~maLoop.done
    /\ maLoop' = Out(moving_avg_python_loop(maIn.data, maIn.w))
    /\ UNCHANGED <<jitVars, asyncVars, arrVars, bcVars, gradVars, prngVars,
                   hoVars, gdVars, maIn, maScan>>

\* print("Scan result:", moving_avg_scan(data, window_size))
RunScan ==
    /\ ~maScan.done
    /\ maScan' = Out(moving_avg_scan(maIn.data, maIn.w))
    /\ UNCHANGED <<jitVars, asyncVars, arrVars, bcVars, gradVars, prngVars,
                   hoVars, gdVars, maIn, maLoop>>

NextMovAvg ==
    \/ RunLoop
    \/ RunScan

SpecMovAvg == InitMovAvg /\ [][NextMovAvg]_vars

\* The higher-order cell starts from any function, argnums and point.
InitHigher ==
    /\ InitJit
    /\ InitAsync
    /\ InitArrIdle
    /\ InitBcIdle
    /\ InitGradIdle
    /\ InitPrng
    /\ InitMovAvgIdle
    /\ hoCase \in HigherCases
    /\ NoHigher
    /\ InitDescentIdle

\* value, first_deriv = f_val_grad(x)
CallFirst ==
    /\ ~hoFirst.done
    /\ hoFirst' = Out(<<Forward(TraceFn(PyFn(hoCase.fn)), hoCase.args,
                                Len(TraceFn(PyFn(hoCase.fn))))
                            [Len(TraceFn(PyFn(hoCase.fn)))],
                        GradAt(PyFn(hoCase.fn), hoCase.k1, hoCase.args)>>)
    /\ hoTraces' = hoTraces \o Bodies(PyFn(hoCase.fn))
    /\ UNCHANGED <<jitVars, asyncVars, arrVars, bcVars, gradVars, prngVars,
                   mavgVars, gdVars, hoCase, hoSecond>>

\* second_deriv = f_double_prime(x), f_double_prime = grad(grad(f))
CallSecond ==
    /\ ~hoSecond.done
    /\ hoSecond' = Out(GradAt(GradFn(PyFn(hoCase.fn), hoCase.k1), hoCase.k2,
                              hoCase.args))
    /\ hoTraces' = hoTraces \o Bodies(GradFn(PyFn(hoCase.fn), hoCase.k1))
    /\ UNCHANGED <<jitVars, asyncVars, arrVars, bcVars, gradVars, prngVars,
                   mavgVars, gdVars, hoCase, hoFirst>>

NextHigher ==
    \/ CallFirst
    \/ CallSecond

SpecHigher == InitHigher /\ [][NextHigher]_vars

\* The gradient descent cell starts from any data, params and rate.
InitDescent ==
    /\ InitJit
    /\ InitAsync
    /\ InitArrIdle
    /\ InitBcIdle
    /\ InitGradIdle
    /\ InitPrng
    /\ InitMovAvgIdle
    /\ InitHigherIdle
    /\ gdIn \in DescentInputs
    /\ gdData = <<gdIn.x_data, gdIn.y_data>>
    /\ gdParams = gdIn.params
    /\ gdArg = NoParams
    /\ gdLog = <<>>

\* params, loss = gradient_descent_step(params, x_data, y_data); print(...)
DescentStep ==
    /\ Len(gdLog) < MaxSteps
    /\ LET r == gradient_descent_step(gdParams, gdData[1], gdData[2], gdIn.lr)
       IN /\ gdParams' = r.ret[1]
          /\ gdArg' = r.params
          /\ gdData' = <<r.x_data, r.y_data>>
          /\ gdLog' = Append(gdLog, [params |-> r.ret[1], loss |-> r.ret[2]])
    /\ UNCHANGED <<jitVars, asyncVars, arrVars, bcVars, gradVars, prngVars,
                   mavgVars, hoVars, gdIn>>

NextDescent == DescentStep

SpecDescent == InitDescent /\ [][NextDescent]_vars

\* ------------------------------------------------------------- claims

\* The wrapped functions without static arguments whose trace succeeds.
JitNoStatic == {"add_multiply", "bad_side_effect", "fast_function"}

C4_CounterCountsTraces ==
    counter = Cardinality({s \in Sigs : s[1] = "bad_side_effect" /\ ncall[s] > 0})

\* Two calls with same-shape inputs ([1.0], then [2.0]) leave counter = 1.
C4_Witness ==
    /\ ncall[<<"bad_side_effect", 1, 0>>] = 2
    /\ ncalls = 2
    /\ counter = 1
    /\ last.hit

\* C5: a call of good_static_loop whose static value has no stored plan for
\* its input shape is a miss that stores exactly one new plan for that value,
\* and the plan a call executes was built for the call's own static value
\* and unrolls that many iterations.
C5_StaticValueInKey ==
    [][(ncalls' = ncalls + 1 /\ last'.f = "good_static_loop") =>
        LET sh == last'.sig[2]
            n == last'.sig[3]
            stored(c) == {k \in DOMAIN c : /\ c[k].fn = "good_static_loop"
                                           /\ c[k].shape = sh
                                           /\ c[k].static = n}
        IN /\ last'.plan.static = n
           /\ Len(last'.plan.ops) = n
           /\ stored(cache) = {} =>
                 /\ last'.traced
                 /\ ~last'.hit
                 /\ Cardinality(stored(cache')) = 1
                 /\ Cardinality(DOMAIN cache') = Cardinality(DOMAIN cache) + 1
                 /\ \A k \in DOMAIN cache : cache'[k] = cache[k]]_vars

\* good_static_loop(x, 5) then good_static_loop(x, 3): two plans, and the
\* second call returns the recorded [1.3641 2.6951 4.0261].
C5_Witness ==
    /\ \E k5, k3 \in DOMAIN cache :
          /\ cache[k5].fn = "good_static_loop" /\ cache[k5].shape = 3
          /\ cache[k5].static = 5 /\ Len(cache[k5].ops) = 5
          /\ cache[k3].fn = "good_static_loop" /\ cache[k3].shape = 3
          /\ cache[k3].static = 3 /\ Len(cache[k3].ops) = 3
    /\ last.sig = <<"good_static_loop", 3, 3>>
    /\ last.traced
    /\ last.result = <<[num |-> <<136410, 269510, 402610>>, k |-> 3]>>

\* The errors of host control flow on a traced value.
UnsupportedTraceControlFlow ==
    {"TracerIntegerConversionError", "TracerBoolConversionError"}

\* C6: every call of bad_dynamic_loop and of jit(bad_python_if), the first
\* included, fails while tracing with an error of the control-flow kind and
\* returns neither a result nor a handle, and stores no plan; the same loop
\* with num_iterations static succeeds.
C6_TraceControlFlowFails ==
    /\ last.f \in {"bad_dynamic_loop", "bad_python_if"} =>
          /\ last.traced
          /\ last.raised \in UnsupportedTraceControlFlow
          /\ last.result = None
          /\ last.handle = 0
    /\ \A k \in DOMAIN cache : k[1] \notin {"bad_dynamic_loop", "bad_python_if"}
    /\ last.f = "good_static_loop" =>
          /\ last.raised = None
          /\ last.result # None
          /\ last.handle # 0

C6_Witness ==
    /\ last.f = "bad_dynamic_loop"
    /\ last.raised = "TracerIntegerConversionError"
    /\ ncall[<<"bad_python_if", 3, 0>>] = 1
    /\ ncall[<<"good_static_loop", 3, 5>>] = 1

C8_SyncWaitsDispatchDoesNot ==
    /\ [](lastSync.h # 0 => lastSync.status = "done")
    /\ [][Len(ops') > Len(ops) =>
            (host' = "run" /\ ops'[Len(ops')].status = "pending")]_vars
    /\ [][(host = "wait" /\ host' = "run") => ops[waitOn[1]].status = "done"]_vars

\* A read has returned, and the host runs on while another operation is
\* still pending.
C8_Witness ==
    /\ lastSync.kind = "read"
    /\ lastSync.status = "done"
    /\ host = "run"
    /\ \E h \in DOMAIN ops : ops[h].status = "pending"

\* C9: after any sequence of updates applied to the same array a, a is as
\* constructed, and the array the latest update a.at[i].set(v) returned has
\* a's shape, equals v at position i and equals a at every other position
\* (for a.at[lo:hi].set(vals): vals in the region, a outside it).
C9_UpdateIsFunctional ==
    nupd > 0 =>
      /\ arr = arr0
      /\ new_arr.shape = arr0.shape
      /\ DOMAIN new_arr.data = DOMAIN arr0.data
      /\ lastUpd.kind = "index" =>
            \A i \in Indices(arr0.shape) :
              new_arr.data[Pos(arr0.shape, i)] =
                (IF i = lastUpd.idx THEN lastUpd.vals[1]
                 ELSE arr0.data[Pos(arr0.shape, i)])
      /\ lastUpd.kind = "slice" =>
            \A i \in 0..(arr0.shape[1] - 1) :
              new_arr.data[i + 1] =
                (IF lastUpd.lo <= i /\ i < lastUpd.hi
                 THEN lastUpd.vals[i - lastUpd.lo + 1]
                 ELSE arr0.data[i + 1])

\* arr_2d.at[1, 2].set(99) after earlier updates of arr_2d: the recorded
\* [[0 1 2] [3 4 99] [6 7 8]], arr_2d itself still arange(9).
C9_Witness ==
    /\ nupd = 3
    /\ arr.shape = <<3, 3>>
    /\ arr.data = <<0, 1, 2, 3, 4, 5, 6, 7, 8>>
    /\ lastUpd.kind = "index"
    /\ lastUpd.idx = <<1, 2>>
    /\ new_arr.data = <<0, 1, 2, 3, 4, 99, 6, 7, 8>>

\* A shape left-padded with dimensions of size 1 to rank r.
PadLeft(sh, r) ==
    [i \in 1..r |-> IF i <= r - Len(sh) THEN 1 ELSE sh[i - (r - Len(sh))]]

\* C11: the result of an elementwise operation on operands of shapes A and B
\* has the shape got by left-padding the shorter of A and B with 1s and
\* taking the larger of each aligned pair of dimensions, and holds one
\* element per position of that shape.
C11_BroadcastShape ==
    bcOp # None =>
      LET A == bcA.shape
          B == bcB.shape
          r == Max(Len(A), Len(B))
      IN /\ Len(bcOut.shape) = r
         /\ \A i \in 1..r :
               bcOut.shape[i] = Max(PadLeft(A, r)[i], PadLeft(B, r)[i])
         /\ Len(bcOut.data) = Product(bcOut.shape)
         /\ B = <<>> => bcOut.shape = A

\* arr + col: (2,3) with (2,1) gives the recorded [[101 102 103] [204 205 206]].
C11_Witness ==
    /\ bcOp = "add"
    /\ bcA = MkArray(<<2, 3>>, <<1, 2, 3, 4, 5, 6>>)
    /\ bcB = MkArray(<<2, 1>>, <<100, 200>>)
    /\ bcOut = MkArray(<<2, 3>>, <<101, 102, 103, 204, 205, 206>>)

C14_GradIsAnalytic ==
    gGrad.done =>
      LET x == gCase.args[1]
      IN /\ gCase.fn = "f" => gGrad.out = <<2 * x>>
         /\ gCase.fn = "h" =>
              LET y == gCase.args[2]
              IN /\ gCase.argnums = <<0>> => gGrad.out = <<2 * x + 3 * y>>
                 /\ gCase.argnums = <<1>> => gGrad.out = <<3 * x + 2 * y>>
                 /\ gCase.argnums = <<0, 1>> =>
                      gGrad.out = <<2 * x + 3 * y, 3 * x + 2 * y>>

\* dh_dy at (2, 1) is 8.
C14_Witness ==
    /\ gCase = [fn |-> "h", argnums |-> <<1>>, args |-> <<2, 1>>]
    /\ gGrad = Out(<<8>>)

\* C17: a key that has been passed to split is not passed to split or to a
\* sampler afterwards.
C17_SplitKeyNotReused ==
    \A i \in DOMAIN prngLog : \A j \in DOMAIN prngLog :
        (i < j /\ prngLog[i].op = "split") => prngLog[j].key # prngLog[i].key

\* The cell's sequence: key(42), uniform on it, split, normal on the subkey,
\* split of the rebound key, randint on the new subkey.
C17_Witness ==
    prngLog = <<Used("uniform", <<42>>), Used("split", <<42>>),
                Used("normal", <<42, 1>>), Used("split", <<42, 0>>),
                Used("randint", <<42, 0, 1>>)>>

\* C19: a step changes the plan table only when it is a call that missed, and
\* then only by adding the missing key: every stored plan stays under its key
\* unmodified, and a call that hits leaves the table as it was and runs the
\* plan stored under its key.
C19_TableChangesOnlyOnMiss ==
    [][LET k == CacheKey(last'.sig[1], last'.sig[2], last'.sig[3])
       IN /\ \A c \in DOMAIN cache :
                c \in DOMAIN cache' /\ cache'[c] = cache[c]
          /\ cache' # cache =>
                /\ ncalls' = ncalls + 1
                /\ last'.traced /\ ~last'.hit
                /\ k \notin DOMAIN cache
                /\ DOMAIN cache' = DOMAIN cache \cup {k}
          /\ (ncalls' = ncalls + 1 /\ last'.hit) =>
                /\ cache' = cache
                /\ last'.plan = cache[k]
      ]_vars

\* Two plans are stored and the third call hit one of them.
C19_Witness ==
    /\ ncalls = 3
    /\ last.hit
    /\ Cardinality(DOMAIN cache) = 2

\* C20: the result of every call that returns, whether it traced or hit the
\* cache, equals the result of running the function's body uncompiled on the
\* same arguments.
C20_CompiledEqualsUncompiled ==
    (last.f \in {"debug_function", "good_conditional", "good_static_loop"}
        /\ last.raised = None /\ last.detected = None) =>
        last.result = Uncompiled(last.f, last.args.x, last.args.n)

\* good_conditional run on [4, 6, 7] from the plan an earlier call of the same
\* shape stored: cos(4), sin(6), sin(7).
C20_Witness ==
    /\ last.f = "good_conditional"
    /\ last.hit
    /\ last.plan.ops = CondEqns
    /\ last.result = <<<<Cos(4), Sin(6), Sin(7)>>>>

\* The mean of data[i..i+w-1] (i from 0).
WindowMean(data, w, i) ==
    [num |-> SumSeq([p \in 1..w |-> data[i + p]]), den |-> w]

\* C21: for data of length n and a window 1 <= w <= n, the unrolled loop and
\* the scan each return n-w+1 entries, entry i being the mean of
\* data[i..i+w-1], so once both have run their results are equal.
C21_LoopEqualsScan ==
    LET n == Len(maIn.data)
        w == maIn.w
        IsMovAvg(r) ==
            /\ Len(r) = n - w + 1
            /\ \A i \in 0..(n - w) : r[i + 1] = WindowMean(maIn.data, w, i)
    IN /\ maLoop.done => IsMovAvg(maLoop.out)
       /\ maScan.done => IsMovAvg(maScan.out)
       /\ (maLoop.done /\ maScan.done) => maLoop.out = maScan.out

\* The recorded run: data 1..10, window 3, both results [2 3 4 5 6 7 8 9].
C21_Witness ==
    /\ maIn = [data |-> [p \in 1..10 |-> p], w |-> 3]
    /\ maLoop = Out([i \in 1..8 |-> [num |-> 3 * (i + 1), den |-> 3]])
    /\ maScan = Out([i \in 1..8 |-> [num |-> 3 * (i + 1), den |-> 3]])

\* The first and second derivatives of the notebook's functions, by hand.
D1(c) ==
    LET x == c.args[1]
    IN CASE c.fn = "f" -> 2 * x
         [] c.fn = "f4" -> 4 * Pow(x, 3) - 6 * Pow(x, 2) + 2 * x
         [] c.fn = "h" -> IF c.k1 = 0 THEN 2 * x + 3 * c.args[2]
                          ELSE 3 * x + 2 * c.args[2]

D2(c) ==
    LET x == c.args[1]
    IN CASE c.fn = "f" -> 2
         [] c.fn = "f4" -> 12 * Pow(x, 2) - 12 * x + 2
         [] c.fn = "h" -> IF c.k1 = c.k2 THEN 2 ELSE 3

Count(sq, e) == Cardinality({i \in DOMAIN sq : sq[i] = e})

\* C22: grad of grad yields the second derivative and value_and_grad the
\* value and the first one; every call traces the function anew (the
\* second-order call runs the first-derivative function on a tracer, which
\* runs the function itself), so the function's body has been traced once
\* per call made.
C22_EachOrderTracesAgain ==
    /\ hoFirst.done => hoFirst.out = <<EvalPy(hoCase.fn, hoCase.args), D1(hoCase)>>
    /\ hoSecond.done => hoSecond.out = D2(hoCase)
    /\ Count(hoTraces, hoCase.fn) =
          (IF hoFirst.done THEN 1 ELSE 0) + (IF hoSecond.done THEN 1 ELSE 0)
    /\ Count(hoTraces, "f_prime") = (IF hoSecond.done THEN 1 ELSE 0)

\* f(x) = x^4 - 2x^3 + x^2 at 2: value 4, first derivative 12, second 26.
C22_Witness ==
    /\ hoCase = [fn |-> "f4", k1 |-> 0, k2 |-> 0, args |-> <<2>>]
    /\ hoFirst = Out(<<4, 12>>)
    /\ hoSecond = Out(26)
    /\ hoTraces = <<"f4", "f_prime", "f4">>

\* The mean squared error of w * x + b against y and its two partial
\* derivatives, by hand: (1/n) sum r^2, (2/n) sum r x, (2/n) sum r, with
\* r = w x + b - y.
HandResidual(q, i) ==
    RSub(RAdd(RMul(q[1], FromInt(gdIn.x_data[i])), q[2]),
         FromInt(gdIn.y_data[i]))

HandLoss(q) ==
    RMul(Rat(1, Len(gdIn.x_data)),
         RSum([i \in DOMAIN gdIn.x_data |->
                  RMul(HandResidual(q, i), HandResidual(q, i))]))

HandStep(q) ==
    LET c == RMul(gdIn.lr, Rat(2, Len(gdIn.x_data)))
        sw == RSum([i \in DOMAIN gdIn.x_data |->
                       RMul(HandResidual(q, i), FromInt(gdIn.x_data[i]))])
        sb == RSum([i \in DOMAIN gdIn.x_data |-> HandResidual(q, i)])
    IN <<RSub(q[1], RMul(c, sw)), RSub(q[2], RMul(c, sb))>>

\* The params passed to step i of the loop.
ParamsBefore(i) == IF i = 1 THEN gdIn.params ELSE gdLog[i - 1].params

\* C23: every step returns the params moved against the gradient at the
\* params it was given and the loss at those same params, so the loss
\* printed at step i is that of the params step i-1 produced; the tuple
\* passed in and the data arrays are as they were, and the loop's params
\* are those the last step returned.
C23_StepReturnsLossBeforeUpdate ==
    /\ \A i \in DOMAIN gdLog :
          /\ gdLog[i].loss = HandLoss(ParamsBefore(i))
          /\ gdLog[i].params = HandStep(ParamsBefore(i))
    /\ gdLog # <<>> =>
          /\ gdArg = ParamsBefore(Len(gdLog))
          /\ gdParams = gdLog[Len(gdLog)].params
    /\ gdData = <<gdIn.x_data, gdIn.y_data>>

\* The recorded run: from (1.5, 0.5), step 1 prints w=2.000, b=0.650,
\* loss=0.8750 and step 2 prints w=1.675, b=0.520, loss=0.4225.
C23_Witness ==
    /\ gdIn = [x_data |-> <<1, 2, 3, 4>>, y_data |-> <<2, 4, 6, 8>>,
               params |-> <<Rat(3, 2), Rat(1, 2)>>, lr |-> Rat(1, 10)]
    /\ gdLog = <<[params |-> <<FromInt(2), Rat(13, 20)>>, loss |-> Rat(7, 8)],
                 [params |-> <<Rat(67, 40), Rat(13, 25)>>,
                  loss |-> Rat(169, 400)]>>

\* C24: a call whose trace raises leaves the plan table as it was, with no
\* plan under the call's key, so every call with a signature that fails to
\* trace is a miss that traces and raises again, while the plans stored for
\* other calls stay.
C24_FailedTraceStoresNoPlan ==
    [][(ncalls' = ncalls + 1 /\ last'.raised # None) =>
          /\ cache' = cache
          /\ CacheKey(last'.sig[1], last'.sig[2], last'.sig[3])
                \notin DOMAIN cache'
          /\ last'.traced /\ ~last'.hit
          /\ ntrace'[last'.sig] = ncall'[last'.sig]
      ]_vars

\* bad_dynamic_loop(x, 5) has failed twice, tracing both times, and the plan
\* another call stored is still the only one in the table.
C24_Witness ==
    /\ ncall[<<"bad_dynamic_loop", 3, 5>>] = 2
    /\ ntrace[<<"bad_dynamic_loop", 3, 5>>] = 2
    /\ last.f = "bad_dynamic_loop"
    /\ last.raised = "TracerIntegerConversionError"
    /\ DOMAIN cache = {CacheKey("add_multiply", 2, 0)}

====
